---- MODULE Spec2Model ----
(***************************************************************************)
(* The cron spec compiler of parser.go: Parser.Parse, normalizeFields,     *)
(* getField, getRange, getBits and parseDescriptor.                        *)
(*                                                                         *)
(* A Go string is a sequence of one-character strings, so that Split,      *)
(* Fields, Index, slicing and Atoi are computed character by character.    *)
(* A uint64 is the set of the positions of its one bits (0..63): shifts    *)
(* drop what leaves the 64-bit word, as Go's do.                           *)
(***************************************************************************)
EXTENDS Integers, Sequences, FiniteSets, TLC

VARIABLES pc, options, spec, r, expr, tokens, result, frame

vars == <<pc, options, spec, r, expr, tokens, result, frame>>

\* The value of a variable the running call does not use.
Null == <<"null">>

\* The element of a one-element set. The({body : x \in {e}}) is
\* LET x == e IN body, with e evaluated once however often body uses x.
The(S) == CHOOSE v \in S : TRUE

\* ------------------------------------------------------------ bounds of the model

\* Longest field expression drawn for getRange and getField.
MaxLen == 4
\* Longest token list drawn for normalizeFields.
MaxTokens == 7
\* Longest field list drawn for Parse.
MaxFields == 6

\* ------------------------------------------------------------ Go strings

RECURSIVE SplitFrom(_, _, _)
\* strings.Split(s, sep) for a one-character sep, cur being the piece in progress.
SplitFrom(s, sep, cur) ==
    IF s = <<>> THEN <<cur>>
    ELSE IF Head(s) = sep THEN <<cur>> \o SplitFrom(Tail(s), sep, <<>>)
    ELSE SplitFrom(Tail(s), sep, Append(cur, Head(s)))

Split(s, sep) == SplitFrom(s, sep, <<>>)

RECURSIVE FieldsFrom(_, _, _)
\* strings.FieldsFunc(s, f) for f = membership in seps: the maximal runs of
\* non-separator characters; no empty string is ever returned.
FieldsFrom(s, seps, cur) ==
    IF s = <<>> THEN (IF cur = <<>> THEN <<>> ELSE <<cur>>)
    ELSE IF Head(s) \in seps
         THEN (IF cur = <<>> THEN <<>> ELSE <<cur>>) \o FieldsFrom(Tail(s), seps, <<>>)
         ELSE FieldsFrom(Tail(s), seps, Append(cur, Head(s)))

FieldsFunc(s, seps) == FieldsFrom(s, seps, <<>>)

\* strings.Fields(s): FieldsFunc on white space (the space is the only white
\* space character of the inputs drawn).
Fields(s) == FieldsFunc(s, {" "})

\* strings.HasPrefix(s, p).
HasPrefix(s, p) == Len(s) >= Len(p) /\ SubSeq(s, 1, Len(p)) = p

\* strings.Index(s, c) for a one-character c: the 0-based position of the first
\* c in s, -1 when there is none.
Index(s, c) ==
    IF \E i \in 1..Len(s) : s[i] = c
    THEN (CHOOSE i \in 1..Len(s) : s[i] = c /\ \A j \in 1..(i - 1) : s[j] # c) - 1
    ELSE -1

\* Whether the Go slice expression s[lo:hi] is within bounds; Go panics otherwise.
SliceOK(s, lo, hi) == 0 <= lo /\ lo <= hi /\ hi <= Len(s)

\* The Go slice expression s[lo:hi] (0-based, hi exclusive), when SliceOK.
Slice(s, lo, hi) == SubSeq(s, lo + 1, hi)

RECURSIVE TrimLeft(_)
TrimLeft(s) == IF s # <<>> /\ Head(s) = " " THEN TrimLeft(Tail(s)) ELSE s

RECURSIVE TrimRight(_)
TrimRight(s) ==
    IF s # <<>> /\ s[Len(s)] = " " THEN TrimRight(SubSeq(s, 1, Len(s) - 1)) ELSE s

\* strings.TrimSpace(s).
TrimSpace(s) == TrimRight(TrimLeft(s))

UpperCase == <<"A","B","C","D","E","F","G","H","I","J","K","L","M",
               "N","O","P","Q","R","S","T","U","V","W","X","Y","Z">>
LowerCase == <<"a","b","c","d","e","f","g","h","i","j","k","l","m",
               "n","o","p","q","r","s","t","u","v","w","x","y","z">>

\* strings.ToLower(s).
ToLower(s) ==
    [i \in 1..Len(s) |->
        IF \E k \in 1..26 : UpperCase[k] = s[i]
        THEN LowerCase[CHOOSE k \in 1..26 : UpperCase[k] = s[i]]
        ELSE s[i]]

Digits == <<"0","1","2","3","4","5","6","7","8","9">>

IsDigit(c) == \E k \in 1..10 : Digits[k] = c

DigitVal(c) == (CHOOSE k \in 1..10 : Digits[k] = c) - 1

RECURSIVE DecimalVal(_, _)
\* The loop of strconv.Atoi: n = n*10 + digit, left to right.
DecimalVal(s, n) ==
    IF s = <<>> THEN n ELSE DecimalVal(Tail(s), n * 10 + DigitVal(Head(s)))

\* strconv.Atoi(s): an optional sign, then one or more decimal digits. The
\* strings drawn have at most MaxLen + 1 characters, so the value fits an int
\* and Atoi's range error does not arise.
Atoi(s) ==
    The({ IF body = <<>> \/ \E i \in 1..Len(body) : ~IsDigit(body[i])
          THEN [val |-> 0, err |-> "syntax"]
          ELSE [val |-> IF s[1] = "-" THEN 0 - DecimalVal(body, 0)
                        ELSE DecimalVal(body, 0),
                err |-> ""]
        : body \in {IF s # <<>> /\ Head(s) \in {"-", "+"} THEN Tail(s) ELSE s} })

\* ------------------------------------------------------------ uint64 as bit sets

Word == 0..63

\* math.MaxUint64.
MaxUint64 == Word

\* x << k on uint64.
Shl(x, k) == {i + k : i \in x} \cap Word

\* ^x on uint64.
Not(x) == Word \ x

\* 1 << i on uint64.
Bit(i) == Shl({0}, i)

\* The wildcard bit, 1 << 63.
starBit == Bit(63)

\* ------------------------------------------------------------ bounds registry

monthNames ==
    { <<<<"j","a","n">>, 1>>, <<<<"f","e","b">>, 2>>, <<<<"m","a","r">>, 3>>,
      <<<<"a","p","r">>, 4>>, <<<<"m","a","y">>, 5>>, <<<<"j","u","n">>, 6>>,
      <<<<"j","u","l">>, 7>>, <<<<"a","u","g">>, 8>>, <<<<"s","e","p">>, 9>>,
      <<<<"o","c","t">>, 10>>, <<<<"n","o","v">>, 11>>, <<<<"d","e","c">>, 12>> }

dowNames ==
    { <<<<"s","u","n">>, 0>>, <<<<"m","o","n">>, 1>>, <<<<"t","u","e">>, 2>>,
      <<<<"w","e","d">>, 3>>, <<<<"t","h","u">>, 4>>, <<<<"f","r","i">>, 5>>,
      <<<<"s","a","t">>, 6>> }

\* A nil names map is the empty set of pairs: no lookup in it succeeds.
seconds == [min |-> 0, max |-> 59, names |-> {}]
minutes == [min |-> 0, max |-> 59, names |-> {}]
hours   == [min |-> 0, max |-> 23, names |-> {}]
dom     == [min |-> 1, max |-> 31, names |-> {}]
months  == [min |-> 1, max |-> 12, names |-> monthNames]
dow     == [min |-> 0, max |-> 6,  names |-> dowNames]

AllBounds == <<seconds, minutes, hours, dom, months, dow>>

\* ------------------------------------------------------------ getBits

RECURSIVE LoopBits(_, _, _)
\* for i := min; i <= max; i += step { bits |= 1 << i }
LoopBits(i, max, step) ==
    IF i <= max THEN Bit(i) \cup LoopBits(i + step, max, step) ELSE {}

\* A closed form whose upper shift is one long: it sets bit max + 1 too.
getBitsLongShift(min, max, step) ==
    IF step = 1
    THEN Not(Shl(MaxUint64, max + 2)) \cap Shl(MaxUint64, min)
    ELSE LoopBits(min, max, step)

\* A closed form whose upper shift is one short: it loses bit max.
getBitsShortShift(min, max, step) ==
    IF step = 1
    THEN Not(Shl(MaxUint64, max)) \cap Shl(MaxUint64, min)
    ELSE LoopBits(min, max, step)

getBits(min, max, step) ==
    IF step = 1
    THEN Not(Shl(MaxUint64, max + 1)) \cap Shl(MaxUint64, min)
    ELSE LoopBits(min, max, step)

\* all returns all bits within the given bounds, without the star bit.
allNoStar(b) == getBits(b.min, b.max, 1)

all(b) == getBits(b.min, b.max, 1) \cup starBit

\* ------------------------------------------------------------ getRange

\* mustParseInt: Atoi, and no negative number.
mustParseInt(e) ==
    The({ IF a.err # "" THEN [val |-> 0, err |-> "failed to parse int"]
          ELSE IF a.val < 0 THEN [val |-> 0, err |-> "negative number not allowed"]
          ELSE [val |-> a.val, err |-> ""]
        : a \in {Atoi(e)} })

\* parseIntOrName: the name's number when names holds the lower-cased
\* expression, mustParseInt otherwise.
parseIntOrName(e, names) ==
    The({ IF \E p \in names : p[1] = lower
          THEN [val |-> (CHOOSE p \in names : p[1] = lower)[2], err |-> ""]
          ELSE mustParseInt(e)
        : lower \in {ToLower(e)} })

\* What getRange returns on an error: a zero mask and the error.
RangeError(e) ==
    [bits |-> {}, err |-> e, resolved |-> FALSE,
     start |-> 0, end |-> 0, step |-> 0, extra |-> {}]

\* The step branch that keeps the star bit whatever the step.
extraAfterStepKept(extra, step) == extra

\* if step > 1 { extra = 0 }
extraAfterStep(extra, step) == IF step > 1 THEN {} ELSE extra

\* The range checks with the upper one off by one: end = max + 1 passes.
checkRangeLoose(start, end, step, b) ==
    IF start < b.min THEN "beginning of range below minimum"
    ELSE IF end > b.max + 1 THEN "end of range above maximum"
    ELSE IF start > end THEN "beginning of range beyond end of range"
    ELSE IF step = 0 THEN "step of range should be a positive number"
    ELSE ""

\* The four checks that end getRange, in the code's order; "" when all pass.
checkRange(start, end, step, b) ==
    IF start < b.min THEN "beginning of range below minimum"
    ELSE IF end > b.max THEN "end of range above maximum"
    ELSE IF start > end THEN "beginning of range beyond end of range"
    ELSE IF step = 0 THEN "step of range should be a positive number"
    ELSE ""

\* The first half of getRange: start, end and extra from the range part.
rangeEnds(lowAndHigh, b) ==
    IF lowAndHigh[1] = <<"*">> \/ lowAndHigh[1] = <<"?">>
    THEN [err |-> "", start |-> b.min, end |-> b.max, extra |-> starBit]
    ELSE The({
        IF lo.err # "" THEN [err |-> lo.err, start |-> 0, end |-> 0, extra |-> {}]
        ELSE IF Len(lowAndHigh) = 1
             THEN [err |-> "", start |-> lo.val, end |-> lo.val, extra |-> {}]
        ELSE IF Len(lowAndHigh) = 2
             THEN The({ IF hi.err # ""
                        THEN [err |-> hi.err, start |-> 0, end |-> 0, extra |-> {}]
                        ELSE [err |-> "", start |-> lo.val, end |-> hi.val,
                              extra |-> {}]
                      : hi \in {parseIntOrName(lowAndHigh[2], b.names)} })
        ELSE [err |-> "too many hyphens", start |-> 0, end |-> 0, extra |-> {}]
        : lo \in {parseIntOrName(lowAndHigh[1], b.names)} })

\* The switch on len(rangeAndStep): the step, 1 when none is written.
rangeStep(rangeAndStep) ==
    IF Len(rangeAndStep) = 1 THEN [val |-> 1, err |-> ""]
    ELSE IF Len(rangeAndStep) = 2 THEN mustParseInt(rangeAndStep[2])
    ELSE [val |-> 0, err |-> "too many slashes"]

\* The second half of getRange, from the step on: ends is what the first half
\* computed, hasStep says a step is written, singleDigit that no hyphen is.
rangeResult(ends, st, hasStep, singleDigit, b) ==
    IF ends.err # "" THEN RangeError(ends.err)
    ELSE IF st.err # "" THEN RangeError(st.err)
    ELSE The({
        [bits |-> IF bad = "" THEN getBits(ends.start, end, st.val) \cup extra ELSE {},
         err |-> bad, resolved |-> TRUE,
         start |-> ends.start, end |-> end, step |-> st.val, extra |-> extra]
        : end \in {IF hasStep /\ singleDigit THEN b.max ELSE ends.end},
          extra \in {IF hasStep THEN extraAfterStep(ends.extra, st.val)
                     ELSE ends.extra},
          bad \in {checkRange(ends.start,
                              IF hasStep /\ singleDigit THEN b.max ELSE ends.end,
                              st.val, b)} })

\* getRange with its locals as they stand at the return: resolved says that
\* start, end and step were all computed (the range checks were reached).
getRangeFrame(e, b) ==
    The({ The({ rangeResult(rangeEnds(lowAndHigh, b), rangeStep(rangeAndStep),
                            Len(rangeAndStep) = 2, Len(lowAndHigh) = 1, b)
              : lowAndHigh \in {Split(rangeAndStep[1], "-")} })
        : rangeAndStep \in {Split(e, "/")} })

getRange(e, b) ==
    The({ [bits |-> f.bits, err |-> f.err] : f \in {getRangeFrame(e, b)} })

\* ------------------------------------------------------------ getField

RECURSIVE getFieldLoop(_, _, _)
\* The loop of getField over ranges, bits being the mask so far: the first
\* error ends it, with the mask so far.
getFieldLoop(ranges, b, bits) ==
    IF ranges = <<>> THEN [bits |-> bits, err |-> ""]
    ELSE The({ IF one.err # "" THEN [bits |-> bits, err |-> one.err]
               ELSE The({ getFieldLoop(rest, b, acc)
                        : rest \in {Tail(ranges)}, acc \in {bits \cup one.bits} })
             : one \in {getRange(Head(ranges), b)} })

\* A getField that returns after its first range.
getFieldFirstOnly(field, b) ==
    The({ IF ranges = <<>> THEN [bits |-> {}, err |-> ""]
          ELSE getRange(Head(ranges), b)
        : ranges \in {FieldsFunc(field, {","})} })

getField(field, b) ==
    The({ getFieldLoop(ranges, b, {}) : ranges \in {FieldsFunc(field, {","})} })

\* ------------------------------------------------------------ parseDescriptor

\* A *SpecSchedule: the six masks and the location.
SpecSchedule(second, minute, hour, dayofmonth, month, dayofweek, loc) ==
    [kind |-> "SpecSchedule", Second |-> second, Minute |-> minute, Hour |-> hour,
     Dom |-> dayofmonth, Month |-> month, Dow |-> dayofweek, Location |-> loc]

\* What Parse and parseDescriptor return: (schedule, nil) or (nil, error).
Ok(sched) == [sched |-> sched, err |-> "", panic |-> FALSE]
Err(e) == [sched |-> Null, err |-> e, panic |-> FALSE]
\* A run-time panic: the call returns nothing.
Panic(e) == [sched |-> Null, err |-> e, panic |-> TRUE]

sYearly   == <<"@","y","e","a","r","l","y">>
sAnnually == <<"@","a","n","n","u","a","l","l","y">>
sMonthly  == <<"@","m","o","n","t","h","l","y">>
sWeekly   == <<"@","w","e","e","k","l","y">>
sDaily    == <<"@","d","a","i","l","y">>
sMidnight == <<"@","m","i","d","n","i","g","h","t">>
sHourly   == <<"@","h","o","u","r","l","y">>
sEvery    == <<"@","e","v","e","r","y"," ">>

\* time.ParseDuration, of the standard library: the duration texts it accepts
\* among those drawn.
GoodDurations == { <<"1","h">>, <<"9","0","s">> }

parseDescriptor(descriptor, loc) ==
    IF descriptor \in {sYearly, sAnnually}
    THEN Ok(SpecSchedule(Bit(seconds.min), Bit(minutes.min), Bit(hours.min),
                         Bit(dom.min), Bit(months.min), all(dow), loc))
    ELSE IF descriptor = sMonthly
    THEN Ok(SpecSchedule(Bit(seconds.min), Bit(minutes.min), Bit(hours.min),
                         Bit(dom.min), all(months), all(dow), loc))
    ELSE IF descriptor = sWeekly
    THEN Ok(SpecSchedule(Bit(seconds.min), Bit(minutes.min), Bit(hours.min),
                         all(dom), all(months), Bit(dow.min), loc))
    ELSE IF descriptor \in {sDaily, sMidnight}
    THEN Ok(SpecSchedule(Bit(seconds.min), Bit(minutes.min), Bit(hours.min),
                         all(dom), all(months), all(dow), loc))
    ELSE IF descriptor = sHourly
    THEN Ok(SpecSchedule(Bit(seconds.min), Bit(minutes.min), all(hours),
                         all(dom), all(months), all(dow), loc))
    ELSE IF HasPrefix(descriptor, sEvery)
    THEN LET text == Slice(descriptor, Len(sEvery), Len(descriptor))
         IN  IF text \in GoodDurations
             THEN Ok([kind |-> "ConstantDelaySchedule", Delay |-> text])
             ELSE Err("failed to parse duration")
    ELSE Err("unrecognized descriptor")

\* ------------------------------------------------------------ the field compiler's calls

\* The characters of the field expressions drawn.
Alphabet == {"*", "?", "-", "/", ",", "0", "1", "6"}

\* Every string over Alphabet of at most MaxLen characters.
AlphabetStrings == UNION {[1..n -> Alphabet] : n \in 0..MaxLen}

\* Field expressions that use the names tables.
NameExprs ==
    { <<"s","u","n">>, <<"S","A","T">>, <<"j","a","n">>, <<"D","e","c">>,
      <<"m","o","n","-","f","r","i">>, <<"f","e","b","-","1","1">>,
      <<"t","u","e","/","2">>, <<"x">> }

\* Longer field expressions: ranges with a step, the full explicit ranges of the
\* six fields, and expressions with too many hyphens or slashes.
LongExprs ==
    { <<"1","0","-","4","0","/","1","0">>, <<"5","/","1","5">>,
      <<"1","-","6","/","2">>, <<"0","-","6","/","1">>, <<"3","-","3","/","7">>,
      <<"0","-","5","9">>, <<"0","-","2","3">>, <<"1","-","3","1">>,
      <<"1","-","1","2">>, <<"6","0">>, <<"5","-","2">>, <<"3">>,
      <<"1","-","2","-","3">>, <<"1","/","2","/","3">>,
      <<"*","-","1","-","2">>, <<"?","-","1","-","2">>,
      <<"*","/","5",",","1","-","2">>, <<"1","-","2",",","*","/","1">>,
      <<"1","/","-","1">>, <<"+","5">> }

ExprInputs == AlphabetStrings \cup NameExprs \cup LongExprs

DescriptorInputs ==
    { sYearly, sAnnually, sMonthly, sWeekly, sDaily, sMidnight, sHourly,
      sEvery \o <<"1","h">>, sEvery \o <<"x">>, <<"@","n","e","v","e","r">> }

BoundsSet == {AllBounds[i] : i \in 1..6}

\* A call of getRange or getField on one expression and one field's bounds,
\* or a call of parseDescriptor on one descriptor.
InitField ==
    /\ pc = "call"
    /\ options = Null
    /\ tokens = Null
    /\ result = Null
    /\ frame = Null
    /\ \/ r \in BoundsSet /\ expr \in ExprInputs /\ spec = Null
       \/ r = Null /\ expr = Null /\ spec \in DescriptorInputs

CallGetRange ==
    /\ pc = "call"
    /\ expr # Null
    /\ pc' = "getRange"
    /\ result' = getRange(expr, r)
    /\ frame' = getRangeFrame(expr, r)
    /\ UNCHANGED <<options, spec, r, expr, tokens>>

CallGetField ==
    /\ pc = "call"
    /\ expr # Null
    /\ pc' = "getField"
    /\ result' = getField(expr, r)
    /\ UNCHANGED <<options, spec, r, expr, tokens, frame>>

CallParseDescriptor ==
    /\ pc = "call"
    /\ spec # Null
    /\ pc' = "parseDescriptor"
    /\ result' = parseDescriptor(spec, "Local")
    /\ UNCHANGED <<options, spec, r, expr, tokens, frame>>

NextField == CallGetRange \/ CallGetField \/ CallParseDescriptor

SpecField == InitField /\ [][NextField]_vars

\* ------------------------------------------------------------ normalizeFields

places == <<"Second", "Minute", "Hour", "Dom", "Month", "Dow">>

defaults == << <<"0">>, <<"0">>, <<"0">>, <<"*">>, <<"*">>, <<"*">> >>

\* The ParseOption flags: a set of flags is the OR of their bits.
Flags ==
    {"Second", "SecondOptional", "Minute", "Hour", "Dom", "Month", "Dow",
     "DowOptional", "Descriptor"}

\* NewParser panics when both optionals are given.
NewParserPanics(opts) == "DowOptional" \in opts /\ "SecondOptional" \in opts

\* optionals: the number of optional flags set.
countOptionals(opts) ==
    (IF "SecondOptional" \in opts THEN 1 ELSE 0)
    + (IF "DowOptional" \in opts THEN 1 ELSE 0)

\* options after "add their field to options".
withOptionalFields(opts) ==
    opts \cup (IF "SecondOptional" \in opts THEN {"Second"} ELSE {})
         \cup (IF "DowOptional" \in opts THEN {"Dow"} ELSE {})

\* The filling of the missing optional with both defaults on the wrong side.
populateOptionalSwapped(fields, opts) ==
    IF "DowOptional" \in opts THEN [err |-> "", fields |-> <<defaults[6]>> \o fields]
    ELSE IF "SecondOptional" \in opts
    THEN [err |-> "", fields |-> Append(fields, defaults[1])]
    ELSE [err |-> "unknown optional field", fields |-> <<>>]

\* "Populate the optional field if not provided": the switch.
populateOptional(fields, opts) ==
    IF "DowOptional" \in opts THEN [err |-> "", fields |-> Append(fields, defaults[6])]
    ELSE IF "SecondOptional" \in opts
    THEN [err |-> "", fields |-> <<defaults[1]>> \o fields]
    ELSE [err |-> "unknown optional field", fields |-> <<>>]

RECURSIVE expandFrom(_, _, _, _)
\* The last loop of normalizeFields from place i on, n fields being consumed.
expandFrom(i, n, fields, opts) ==
    IF i > Len(places) THEN <<>>
    ELSE IF places[i] \in opts
         THEN <<fields[n + 1]>> \o expandFrom(i + 1, n + 1, fields, opts)
         ELSE <<defaults[i]>> \o expandFrom(i + 1, n, fields, opts)

\* normalizeFields once max and min are known.
normalizeCounted(fields, opts, min, max) ==
    IF Len(fields) < min \/ Len(fields) > max
    THEN [fields |-> Null,
          err |-> IF min = max THEN "expected exactly n fields"
                  ELSE "expected min to max fields"]
    ELSE The({ IF filled.err # "" THEN [fields |-> Null, err |-> filled.err]
               ELSE [fields |-> expandFrom(1, 0, filled.fields, opts), err |-> ""]
             : filled \in {IF min < max /\ Len(fields) = min
                           THEN populateOptional(fields, opts)
                           ELSE [err |-> "", fields |-> fields]} })

normalizeFields(fields, optionsIn) ==
    IF countOptionals(optionsIn) > 1
    THEN [fields |-> Null, err |-> "multiple optionals may not be configured"]
    ELSE The({ normalizeCounted(fields, opts, max - countOptionals(optionsIn), max)
             : opts \in {withOptionalFields(optionsIn)},
               max \in {Cardinality({i \in 1..Len(places) :
                                       places[i] \in withOptionalFields(optionsIn)})} })

\* ------------------------------------------------------------ Parser.Parse

sTZ == <<"T","Z","=">>
sCRON_TZ == <<"C","R","O","N","_","T","Z","=">>
sUTC == <<"U","T","C">>

\* time.LoadLocation, of the standard library: "" and "UTC" name UTC, "Local"
\* the local zone; no other name drawn is a zone.
LoadLocation(name) ==
    IF name = <<>> \/ name = sUTC THEN [loc |-> "UTC", err |-> ""]
    ELSE IF name = <<"L","o","c","a","l">> THEN [loc |-> "Local", err |-> ""]
    ELSE [loc |-> Null, err |-> "unknown time zone"]

RECURSIVE fieldsFrom(_, _, _)
\* The six calls of the field closure from field i on: once err is set every
\* later call returns 0 and leaves err alone.
fieldsFrom(i, fields, masks) ==
    IF i > Len(AllBounds) THEN [masks |-> masks, err |-> ""]
    ELSE The({ IF one.err # "" THEN [masks |-> masks, err |-> one.err]
               ELSE The({ fieldsFrom(j, fields, acc)
                        : j \in {i + 1}, acc \in {Append(masks, one.bits)} })
             : one \in {getField(fields[i], AllBounds[i])} })

\* Parse once the field list is normalized.
parseFields(norm, loc) ==
    IF norm.err # "" THEN Err(norm.err)
    ELSE The({ IF got.err # "" THEN Err(got.err)
               ELSE Ok(SpecSchedule(got.masks[1], got.masks[2], got.masks[3],
                                    got.masks[4], got.masks[5], got.masks[6], loc))
             : got \in {fieldsFrom(1, norm.fields, <<>>)} })

\* Parse from the descriptor test on: spc is the spec without its timezone.
parseBody(opts, spc, loc) ==
    IF HasPrefix(spc, <<"@">>)
    THEN IF "Descriptor" \notin opts THEN Err("parser does not accept descriptors")
         ELSE parseDescriptor(spc, loc)
    ELSE The({ parseFields(norm, loc)
             : norm \in {The({ normalizeFields(fields, opts)
                             : fields \in {Fields(spc)} })} })

\* Parse from the timezone's extraction on: i and eq are the two indexes.
parseZoned(opts, spc, i, eq) ==
    IF ~SliceOK(spc, eq + 1, i) THEN Panic("slice bounds out of range")
    ELSE The({ IF got.err # "" THEN Err("provided bad location")
               ELSE The({ parseBody(opts, rest, got.loc)
                        : rest \in {TrimSpace(Slice(spc, i, Len(spc)))} })
             : got \in {LoadLocation(Slice(spc, eq + 1, i))} })

Parse(opts, spc) ==
    IF Len(spc) = 0 THEN Err("empty spec string")
    ELSE IF HasPrefix(spc, sTZ) \/ HasPrefix(spc, sCRON_TZ)
    THEN The({ parseZoned(opts, spc, i, eq)
             : i \in {Index(spc, " ")}, eq \in {Index(spc, "=")} })
    ELSE parseBody(opts, spc, "Local")

\* ------------------------------------------------------------ the calls of normalizeFields

\* The tokens drawn are told apart by their position in the list supplied.
TokenPool ==
    << <<"a">>, <<"b">>, <<"c">>, <<"d">>, <<"e">>, <<"f">>, <<"g">>, <<"h">>,
       <<"i">>, <<"j">> >>

TokenLists ==
    {SubSeq(TokenPool, 1, n) : n \in 0..MaxTokens}
    \cup {[i \in 1..n |-> IF i % 2 = 1 THEN <<"*">> ELSE <<"0">>] : n \in 0..MaxTokens}

\* Every field configuration: the Descriptor flag is not read by normalizeFields.
FieldConfigurations == SUBSET (Flags \ {"Descriptor"})

InitNormalize ==
    /\ pc = "call"
    /\ options \in FieldConfigurations
    /\ tokens \in TokenLists
    /\ spec = Null
    /\ r = Null
    /\ expr = Null
    /\ result = Null
    /\ frame = Null

CallNormalizeFields ==
    /\ pc = "call"
    /\ pc' = "normalizeFields"
    /\ result' = normalizeFields(tokens, options)
    /\ UNCHANGED <<options, spec, r, expr, tokens, frame>>

NextNormalize == CallNormalizeFields

SpecNormalize == InitNormalize /\ [][NextNormalize]_vars

\* ------------------------------------------------------------ the calls of Parse

standardParser == {"Minute", "Hour", "Dom", "Month", "Dow", "Descriptor"}

\* The option sets of the parsers drawn; NewParser returns a Parser for each.
ParserOptions ==
    { o \in { standardParser,
              {"Second", "Minute", "Hour", "Dom", "Month", "Dow"},
              {"SecondOptional", "Minute", "Hour", "Dom", "Month", "Dow", "Descriptor"},
              {"Minute", "Hour", "Dom", "Month", "DowOptional"},
              {"SecondOptional", "DowOptional"} } : ~NewParserPanics(o) }

\* The field tokens of the specs drawn.
FieldTokens == { <<"*">>, <<"0">>, <<",">> }

RECURSIVE Join(_)
\* The tokens of a list, one space between two.
Join(list) ==
    IF list = <<>> THEN <<>>
    ELSE IF Len(list) = 1 THEN list[1]
    ELSE list[1] \o <<" ">> \o Join(Tail(list))

FieldLists == {Join(l) : l \in UNION {[1..n -> FieldTokens] : n \in 0..MaxFields}}

\* The explicit spec with the meaning of each descriptor, for the standard parser.
Explicit(d) ==
    IF d \in {sYearly, sAnnually} THEN <<"0"," ","0"," ","1"," ","1"," ","*">>
    ELSE IF d = sMonthly THEN <<"0"," ","0"," ","1"," ","*"," ","*">>
    ELSE IF d = sWeekly THEN <<"0"," ","0"," ","*"," ","*"," ","0">>
    ELSE IF d \in {sDaily, sMidnight} THEN <<"0"," ","0"," ","*"," ","*"," ","*">>
    ELSE <<"0"," ","*"," ","*"," ","*"," ","*">>

TableDescriptors == {sYearly, sAnnually, sMonthly, sWeekly, sDaily, sMidnight, sHourly}

Bodies == FieldLists \cup DescriptorInputs \cup {Explicit(d) : d \in TableDescriptors}

\* The timezone designations drawn, the empty one for a spec without timezone.
TzPrefixes ==
    { <<>>, sTZ \o sUTC \o <<" ">>, sCRON_TZ \o sUTC \o <<" ">>,
      sTZ \o <<"M","a","r","s"," ">>, sTZ \o <<" ">>,
      sTZ \o sUTC, sCRON_TZ \o sUTC }

SpecInputs == {p \o b : p \in TzPrefixes, b \in Bodies}

Init ==
    /\ pc = "call"
    /\ options \in ParserOptions
    /\ spec \in SpecInputs
    /\ tokens = Null
    /\ r = Null
    /\ expr = Null
    /\ result = Null
    /\ frame = Null

CallParse ==
    /\ pc = "call"
    /\ pc' = "Parse"
    /\ result' = Parse(options, spec)
    /\ UNCHANGED <<options, spec, r, expr, tokens, frame>>

Next == CallParse

Spec == Init /\ [][Next]_vars

\* ------------------------------------------------------------ properties: getRange

\* The value bits of a mask: bits 0..62.
ValueBits(m) == m \ starBit

\* The positions start, start+step, start+2*step, ... that do not exceed end.
Stepped(start, end, step) ==
    {i \in 0..62 : start <= i /\ i <= end /\ (i - start) % step = 0}

\* The sub-expression of the call read as the grammar reads it: its range part
\* and step part, and the two ends of the range part.
ExprParts == Split(expr, "/")
ExprEnds == Split(ExprParts[1], "-")
ExprIsStar == ExprEnds[1] \in {<<"*">>, <<"?">>}
ExprHasStep == Len(ExprParts) = 2
ExprStep == IF ExprHasStep THEN mustParseInt(ExprParts[2]).val ELSE 1
ExprStart == IF ExprIsStar THEN r.min ELSE parseIntOrName(ExprEnds[1], r.names).val
ExprEnd ==
    IF ExprIsStar THEN r.max
    ELSE IF Len(ExprEnds) = 2 THEN parseIntOrName(ExprEnds[2], r.names).val
    ELSE IF ExprHasStep THEN r.max
    ELSE ExprStart

Accepted == result.err = ""

\* C1: for every sub-expression getRange accepts, the value bits of the mask are
\* exactly start, start+step, ... up to end, with start = a and end = b for
\* 'a-b', start = end = N for 'N', end = max for 'N/step', start = min and
\* end = max for '*' and '?'; and for step 1 the closed-form mask is the mask
\* the per-bit loop builds.
C1_SteppedBits ==
    (pc = "getRange" /\ Accepted) =>
        /\ ValueBits(result.bits) = Stepped(ExprStart, ExprEnd, ExprStep)
        /\ ExprStep = 1 =>
              getBits(ExprStart, ExprEnd, 1) = LoopBits(ExprStart, ExprEnd, 1)

\* '5/15' for minutes was compiled, to bits 5, 20, 35 and 50.
C1_Witness ==
    /\ pc = "getRange"
    /\ expr = <<"5","/","1","5">>
    /\ r = minutes
    /\ result = [bits |-> {5, 20, 35, 50}, err |-> ""]

\* C3, as claimed: whenever the range part starts with '*' or '?', getRange
\* sets bit 63 whatever the step.
C3_StarBitWhateverStep ==
    (pc = "getRange" /\ Accepted /\ ExprIsStar) => 63 \in result.bits

\* C3, amended: whenever the range part starts with '*' or '?', getRange sets
\* bit 63 exactly when no step is written or the step is 1.
C3_StarBitIffStepOne ==
    (pc = "getRange" /\ Accepted /\ ExprIsStar) =>
        (63 \in result.bits <=> ExprStep = 1)

\* A '*' or '?' with a step above 1 was compiled, and bit 63 is clear.
C3_Witness ==
    /\ pc = "getRange"
    /\ Accepted
    /\ ExprIsStar
    /\ ExprStep > 1
    /\ 63 \notin result.bits
    /\ ValueBits(result.bits) # {}

\* The field list in which field i is the call's expression and the others '*'.
SpecWithExprAt(i) ==
    [j \in 1..6 |-> IF j = i THEN expr ELSE <<"*">>]

\* The call's expression can stand as one field of a spec: it is not empty and
\* getField does not split it.
ExprIsOneRange == expr # <<>> /\ \A k \in 1..Len(expr) : expr[k] \notin {",", " "}

SixFields == {"Second", "Minute", "Hour", "Dom", "Month", "Dow"}

\* C5: getRange returns an error and a zero mask exactly when the resolved
\* start, end and step violate one of start >= min, end <= max, start <= end,
\* step >= 1, and Parse of a spec holding the sub-expression then returns that
\* error and no schedule; '60' fails as end above maximum, '5-2' as beginning
\* beyond end, a step of 0 as non-positive step; every accepted sub-expression
\* satisfies the four conditions.
C5_RangeChecks ==
    pc = "getRange" =>
        /\ ~Accepted => result.bits = {}
        /\ Accepted => frame.resolved
        /\ frame.resolved =>
              (Accepted <=> /\ r.min <= frame.start
                            /\ frame.end <= r.max
                            /\ frame.start <= frame.end
                            /\ frame.step >= 1)
        /\ expr = <<"6","0">> => result.err = "end of range above maximum"
        /\ expr = <<"5","-","2">> => result.err = "beginning of range beyond end of range"
        /\ (frame.resolved /\ frame.step = 0 /\ r.min <= frame.start
              /\ frame.end <= r.max /\ frame.start <= frame.end) =>
              result.err = "step of range should be a positive number"
        /\ (~Accepted /\ ExprIsOneRange) =>
              \A i \in 1..6 : AllBounds[i] = r =>
                  Parse(SixFields, Join(SpecWithExprAt(i))) = Err(result.err)

\* '60' for minutes was refused: its end is above the maximum.
C5_Witness ==
    /\ pc = "getRange"
    /\ expr = <<"6","0">>
    /\ r = minutes
    /\ frame.resolved
    /\ frame.end > r.max
    /\ result = [bits |-> {}, err |-> "end of range above maximum"]

\* C6, as claimed: a sub-expression with more than one '/', or with more than
\* one '-' in its range part, is refused with an error and no mask, whatever the
\* first token of the range part.
C6_TooManyRefused ==
    (pc = "getRange" /\ (Len(ExprParts) > 2 \/ Len(ExprEnds) > 2)) =>
        (~Accepted /\ result.bits = {})

\* ------------------------------------------------------------ properties: getField

Ranges == FieldsFunc(expr, {","})

\* A range of the field whose range part starts with '*' or '?' and whose step
\* is 1 or not written.
IsStarRange(e) ==
    /\ Split(Split(e, "/")[1], "-")[1] \in {<<"*">>, <<"?">>}
    /\ Len(Split(e, "/")) = 2 => mustParseInt(Split(e, "/")[2]).val = 1

\* The field expression is the explicit full range 'min-max'.
IsFullRange ==
    /\ \A k \in 1..Len(expr) : expr[k] \notin {",", "/"}
    /\ Len(ExprEnds) = 2
    /\ ~ExprIsStar
    /\ ExprStart = r.min
    /\ ExprEnd = r.max

\* The field expression is one of the grammar: ranges with commas between
\* them, each with at most one '/' and at most one '-' in its range part.
InGrammar ==
    /\ Len(Split(expr, ",")) = Len(Ranges)
    /\ \A k \in 1..Len(Ranges) :
          /\ Len(Split(Ranges[k], "/")) <= 2
          /\ Len(Split(Split(Ranges[k], "/")[1], "-")) <= 2

\* C2, as claimed, on the field expressions of the grammar: the mask of an
\* accepted field has bit 63 if and only if the field expression is exactly
\* '*' or exactly '?'.
C2_StarBitIffExactStar ==
    (pc = "getField" /\ Accepted /\ InGrammar) =>
        (63 \in result.bits <=> expr \in {<<"*">>, <<"?">>})

\* C2, amended: the mask of an accepted field has bit 63 if and only if one of
\* its comma-separated ranges starts with '*' or '?' and has no step or the
\* step 1; '*' yields the full [min,max] mask with bit 63, and the explicit
\* full range 'min-max' the same value bits with bit 63 clear.
C2_StarBitIffStarRange ==
    (pc = "getField" /\ Accepted) =>
        /\ 63 \in result.bits <=> \E k \in 1..Len(Ranges) : IsStarRange(Ranges[k])
        /\ expr \in {<<"*">>, <<"?">>} => result.bits = (r.min..r.max) \cup {63}
        /\ IsFullRange => result.bits = r.min..r.max

\* '1-2,*/1' was compiled: its mask has bit 63 and the field is not '*'.
C2_Witness ==
    /\ pc = "getField"
    /\ expr = <<"1","-","2",",","*","/","1">>
    /\ r = dow
    /\ result = [bits |-> (0..6) \cup {63}, err |-> ""]

MaskInBounds(m, b) == m \subseteq (b.min..b.max) \cup {63}

\* C4: every bit of the mask getField returns for an accepted field is at a
\* position in min..max or is bit 63, and so is every bit of the six masks of
\* a schedule a descriptor produces.
C4_BitsInBounds ==
    /\ (pc = "getField" /\ Accepted) => MaskInBounds(result.bits, r)
    /\ (pc = "parseDescriptor" /\ Accepted /\ result.sched.kind = "SpecSchedule") =>
          /\ MaskInBounds(result.sched.Second, seconds)
          /\ MaskInBounds(result.sched.Minute, minutes)
          /\ MaskInBounds(result.sched.Hour, hours)
          /\ MaskInBounds(result.sched.Dom, dom)
          /\ MaskInBounds(result.sched.Month, months)
          /\ MaskInBounds(result.sched.Dow, dow)

\* '*/5,1-2' for day of month was compiled, a stepped wildcard and a range.
C4_Witness ==
    /\ pc = "getField"
    /\ expr = <<"*","/","5",",","1","-","2">>
    /\ r = dom
    /\ result = [bits |-> {1, 2, 6, 11, 16, 21, 26, 31}, err |-> ""]

\* ------------------------------------------------------------ properties: normalizeFields

\* The canonical positions the configuration selects, an optional flag
\* selecting its field.
Selected ==
    {i \in 1..6 : \/ places[i] \in options
                  \/ (i = 1 /\ "SecondOptional" \in options)
                  \/ (i = 6 /\ "DowOptional" \in options)}

Optionals == Cardinality(options \cap {"SecondOptional", "DowOptional"})

\* The k-th smallest position selected.
SelectedAt(k) == CHOOSE i \in Selected : Cardinality({j \in Selected : j <= i}) = k

\* The supplied tokens, completed with the default of a missing optional field.
Completed ==
    IF Len(tokens) = Cardinality(Selected) THEN tokens
    ELSE IF "SecondOptional" \in options THEN <<defaults[1]>> \o tokens
    ELSE Append(tokens, defaults[6])

\* C7: with at most one optional flag, normalizeFields fails iff the token count
\* is outside [min, max]; otherwise it returns six tokens, the configured
\* fields holding the supplied tokens in order (a missing optional second
\* filled with '0' at the front, a missing optional day-of-week with '*' at the
\* end), every other field its default.
C7_Normalize ==
    (pc = "normalizeFields" /\ Optionals <= 1) =>
        /\ ~Accepted <=> \/ Len(tokens) < Cardinality(Selected) - Optionals
                         \/ Len(tokens) > Cardinality(Selected)
        /\ ~Accepted => result.fields = Null
        /\ Accepted =>
              /\ Len(result.fields) = 6
              /\ \A i \in (1..6) \ Selected : result.fields[i] = defaults[i]
              /\ [k \in 1..Cardinality(Selected) |-> result.fields[SelectedAt(k)]]
                    = Completed

\* Five tokens were given to a parser with an optional second: '0' leads.
C7_Witness ==
    /\ pc = "normalizeFields"
    /\ options = {"SecondOptional", "Minute", "Hour", "Dom", "Month", "Dow"}
    /\ tokens = SubSeq(TokenPool, 1, 5)
    /\ Accepted
    /\ result.fields = <<defaults[1]>> \o tokens

\* ------------------------------------------------------------ properties: Parse

\* The timezone designations that resolve.
GoodTzPrefixes == { <<>>, sTZ \o sUTC \o <<" ">>, sCRON_TZ \o sUTC \o <<" ">> }

\* C8: under the standard parser each table descriptor compiles to the schedule
\* of its explicit spec, bit for bit and with the same location; '@weekly' has
\* second, minute and hour bit 0 only, day of month and month full with bit 63,
\* day of week bit 0 only.
C8_DescriptorIsExplicit ==
    (pc = "Parse" /\ options = standardParser) =>
        \A p \in GoodTzPrefixes, d \in TableDescriptors :
            spec = p \o d =>
                /\ Accepted
                /\ result.sched.kind = "SpecSchedule"
                /\ result = Parse(standardParser, p \o Explicit(d))
                /\ d = sWeekly =>
                      /\ result.sched.Second = {0}
                      /\ result.sched.Minute = {0}
                      /\ result.sched.Hour = {0}
                      /\ result.sched.Dom = (1..31) \cup {63}
                      /\ result.sched.Month = (1..12) \cup {63}
                      /\ result.sched.Dow = {0}

\* 'TZ=UTC @weekly' was parsed by the standard parser.
C8_Witness ==
    /\ pc = "Parse"
    /\ options = standardParser
    /\ spec = sTZ \o sUTC \o <<" ">> \o sWeekly
    /\ Accepted
    /\ result.sched.Dow = {0}
    /\ result.sched.Location = "UTC"

\* C9, as claimed: Parse ends by returning a schedule and no error, or no
\* schedule and an error; it never aborts.
C9_ParseReturns ==
    pc = "Parse" =>
        /\ ~result.panic
        /\ result.sched # Null <=> result.err = ""

\* C10, as claimed: every mask of a schedule Parse compiles from fields has at
\* least one value bit within the bounds of its field.
C10_NoEmptyMask ==
    (pc = "Parse" /\ Accepted /\ ~result.panic
        /\ result.sched.kind = "SpecSchedule") =>
        /\ result.sched.Second \cap (seconds.min..seconds.max) # {}
        /\ result.sched.Minute \cap (minutes.min..minutes.max) # {}
        /\ result.sched.Hour \cap (hours.min..hours.max) # {}
        /\ result.sched.Dom \cap (dom.min..dom.max) # {}
        /\ result.sched.Month \cap (months.min..months.max) # {}
        /\ result.sched.Dow \cap (dow.min..dow.max) # {}

====
